---- MODULE Spec2Model ----
(***************************************************************************)
(* State-machine model of the RTOS core of the ATmega128 firmware:         *)
(* src/src/rtos/scheduler.rs (Scheduler, EventQueue, Semaphore) and        *)
(* src/src/rtos/task.rs (Task, TaskControl).                               *)
(*                                                                         *)
(* One variable per field of the Scheduler and per static of the module,   *)
(* one action per public operation.  The result of the last call is kept   *)
(* in ret so that properties can speak about what a call returned.         *)
(***************************************************************************)
EXTENDS Integers, Sequences, FiniteSets, TLC

(* ----------------------------- constants ------------------------------ *)

\* scheduler.rs:8
MAX_TASKS == 16
\* scheduler.rs:64, the length of EventQueue.events
EVENT_SLOTS == 32
\* scheduler.rs:148, the length of Scheduler.semaphores
NUM_SEMAPHORES == 8
\* the width of Semaphore.count (AtomicU8), scheduler.rs:101
U8_MOD == 256

\* scheduler.rs:411-417, TaskPriority as u8
PrioIdle == 0
PrioLow == 1
PrioNormal == 2
PrioHigh == 3
PrioCritical == 4
TaskPriority == {PrioIdle, PrioLow, PrioNormal, PrioHigh, PrioCritical}

\* task.rs:11-16
TaskState == {"Ready", "Running", "Blocked", "Suspended"}

\* Option::None for slots and indices
None == -1
NoTask == [priority |-> None, state |-> "None", entry |-> "None"]
NoEvent == [event_type |-> "None", data |-> None, timestamp |-> None]
NoWait == [event_type |-> "None", deadline |-> None, task |-> None]
NoHist == [handle |-> None, initial |-> None, acquired |-> 0, released |-> 0,
           posted |-> <<>>, delivered |-> <<>>, handles |-> {},
           suspended |-> {}]

Slots == 0 .. (MAX_TASKS - 1)
EventIdx == 0 .. (EVENT_SLOTS - 1)
SemIdx == 0 .. (NUM_SEMAPHORES - 1)

(* ------------------------------- bounds ------------------------------- *)

\* the application keeps at most this many tasks in the table
MaxLive == 3
\* the application posts at most this many events in all
MaxPosts == 1
\* semaphore 0 is not released beyond this count
MaxCount == 1
\* the largest timeout passed to wait_for_event
MaxTimeout == 1
\* SpecSem: the releases that follow a refused acquire
MaxReleases == 1
\* SpecFifo: the events posted in all
MaxFifo == 3
\* SpecTimeout: the timer interrupts that fire in all
MaxTicks == 3
\* SpecWake: the events posted in all
MaxWake == 2
IdsLive == 2
MaxRuns == 2
MaxHandles == 2
MaxSectors == 1
MaxPayload == 2

(* ------------------------------ variables ----------------------------- *)

VARIABLES
    tasks,              \* Scheduler.tasks: [Option<Task>; MAX_TASKS]
    current_task,       \* Scheduler.current_task: Option<usize>
    task_count,         \* Scheduler.task_count
    idle_task_index,    \* Scheduler.idle_task_index: Option<usize>
    event_queue,        \* Scheduler.event_queue: events, head, tail
    semaphores,         \* Scheduler.semaphores: the count of each of the 8
    SCHEDULER_RUNNING,  \* static AtomicBool
    SYSTEM_TICKS,       \* static AtomicU32; no code under src/ increments it
    wait,               \* the wait_for_event call that is inside its loop,
                        \* and the task that made it
    panicked,           \* an unwrap() on an empty slot has halted the program
    ret,                \* what the last call returned
    hist,               \* the callers' tally of their calls (SpecSem, SpecFifo,
                        \* SpecPool, SpecSuspend)
    NEXT_TASK_ID,       \* static AtomicU8 of task.rs
    ids,                \* TaskControl.id of the task in each slot
    contexts,           \* Scheduler.contexts: the stack_ptr of each slot
    statistics,         \* Scheduler.statistics: the total_runs of each slot
    control,            \* deadline_ms and last_wake_time of a Task that its
                        \* creator holds
    bootloader,         \* Bootloader: its state and the number of pages it
                        \* has programmed and found equal on reading back
    logger,             \* Logger: buffer_index, write_pointer, current_sector
    protocol,           \* Protocol: the receive buffer, the bytes on the
                        \* line and the packets handed to the handler
    mcu                 \* the processor: stack pointer, status register,
                        \* registers, the stack under the stack pointer, and
                        \* the position of the main-line code

\* The task ids and the machine context are followed by the specifications
\* that are about them (SpecIds, SpecSwitch, SpecStack, SpecMissed); the
\* others leave them as Scheduler::new made them.  The bootloader, the
\* logger and the protocol are objects of their own, followed by SpecBoot,
\* SpecLog and SpecFrame.
periph == <<bootloader, logger, protocol>>
detail == <<NEXT_TASK_ID, ids, contexts, statistics, mcu, control, periph>>
sched == <<tasks, current_task, task_count, idle_task_index, event_queue,
           semaphores, SCHEDULER_RUNNING, SYSTEM_TICKS, wait, NEXT_TASK_ID,
           ids, contexts, statistics, mcu, control>>

vars == <<tasks, current_task, task_count, idle_task_index, event_queue,
          semaphores, SCHEDULER_RUNNING, SYSTEM_TICKS, wait, panicked, ret,
          hist, NEXT_TASK_ID, ids, contexts, statistics, mcu, control,
          bootloader, logger, protocol>>

\* what a call returned: the Ok or Err variant and the value Ok carries
\* (op, the name of the call, is not kept in the state)
Ret(op, res, val) == [res |-> res, val |-> val]

(* ------------------------------- Task --------------------------------- *)

\* Task::new: a fresh task is Ready
task_new(priority, entry) ==
    [priority |-> priority, state |-> "Ready", entry |-> entry]

Occupied(ts) == {i \in Slots : ts[i] # NoTask}

\* Task::suspend, Task::resume, Task::block, Task::unblock
suspend_unguarded(task) == [task EXCEPT !.state = "Suspended"]

suspend(task) ==
    IF task.state = "Running" THEN [task EXCEPT !.state = "Suspended"] ELSE task

resume(task) ==
    IF task.state = "Suspended" THEN [task EXCEPT !.state = "Ready"] ELSE task

block(task) ==
    IF task.state = "Running" THEN [task EXCEPT !.state = "Blocked"] ELSE task

unblock(task) ==
    IF task.state = "Blocked" THEN [task EXCEPT !.state = "Ready"] ELSE task

\* Task::wait_for_event: the state becomes Blocked whatever it was
\* (waiting_event, which it also sets, is read nowhere)
task_wait_for_event(task, event_type) == [task EXCEPT !.state = "Blocked"]

(* ----------------------------- EventQueue ----------------------------- *)

EventQueueNew ==
    [events |-> [i \in EventIdx |-> NoEvent], head |-> 0, tail |-> 0]

\* EventQueue::push: <<accepted, queue afterwards>>
push_unchecked(q, event) ==
    LET next == (q.tail + 1) % EVENT_SLOTS
        q2 == [q EXCEPT !.events[q.tail] = event, !.tail = next]
    IN  <<TRUE, q2>>

push_store_first(q, event) ==
    LET next == (q.tail + 1) % EVENT_SLOTS
        stored == [q EXCEPT !.events[q.tail] = event]
        q2 == [stored EXCEPT !.tail = next]
    IN  IF next # q.head THEN <<TRUE, q2>> ELSE <<FALSE, stored>>

push(q, event) ==
    LET next == (q.tail + 1) % EVENT_SLOTS
        q2 == [q EXCEPT !.events[q.tail] = event, !.tail = next]
    IN  IF next # q.head THEN <<TRUE, q2>> ELSE <<FALSE, q>>

\* EventQueue::pop: <<event or NoEvent, queue afterwards>>
pop_newest(q) ==
    IF q.head # q.tail
    THEN LET last == (q.tail + EVENT_SLOTS - 1) % EVENT_SLOTS
             q2 == [q EXCEPT !.events[last] = NoEvent, !.tail = last]
         IN  <<q.events[last], q2>>
    ELSE <<NoEvent, q>>

pop_no_take(q) ==
    IF q.head # q.tail
    THEN LET q2 == [q EXCEPT !.head = (q.head + 1) % EVENT_SLOTS]
         IN  <<q.events[q.head], q2>>
    ELSE <<NoEvent, q>>

pop(q) ==
    IF q.head # q.tail
    THEN LET q2 == [q EXCEPT !.events[q.head] = NoEvent,
                             !.head = (q.head + 1) % EVENT_SLOTS]
         IN  <<q.events[q.head], q2>>
    ELSE <<NoEvent, q>>

\* the number of unconsumed events: the slots that hold Some(event)
Unconsumed(q) == Cardinality({i \in EventIdx : q.events[i] # NoEvent})

\* the unconsumed events, oldest first: what successive pops return
RECURSIVE Drain(_)
Drain(q) ==
    IF q.head = q.tail THEN <<>>
    ELSE <<pop(q)[1]>> \o Drain(pop(q)[2])

(* ------------------------------ Semaphore ----------------------------- *)

\* Semaphore::acquire: <<acquired, count afterwards>>
acquire_no_decrement(count) ==
    IF count > 0 THEN <<TRUE, count>> ELSE <<FALSE, count>>

acquire(count) ==
    IF count > 0 THEN <<TRUE, count - 1>> ELSE <<FALSE, count>>

\* Semaphore::release: fetch_add(1) on an AtomicU8 wraps
release(count) == (count + 1) % U8_MOD


(* ------------------------------ Scheduler ----------------------------- *)

TasksNew == [i \in Slots |-> NoTask]
SemaphoresNew == [i \in SemIdx |-> 0]

\* the first empty slot of the table, MAX_TASKS when there is none
LastEmpty(ts) ==
    IF \E i \in Slots : ts[i] = NoTask
    THEN CHOOSE i \in Slots :
            ts[i] = NoTask /\ \A j \in Slots : j > i => ts[j] # NoTask
    ELSE MAX_TASKS

FirstEmpty(ts) ==
    IF \E i \in Slots : ts[i] = NoTask
    THEN CHOOSE i \in Slots :
            ts[i] = NoTask /\ \A j \in Slots : j < i => ts[j] # NoTask
    ELSE MAX_TASKS

\* Scheduler::add_task on table ts with task_count count
add_task_no_count(ts, count, priority, entry) ==
    LET i == FirstEmpty(ts)
        failed == [res |-> "TaskLimitReached", slot |-> None,
                   tasks |-> ts, task_count |-> count]
    IN  IF count >= MAX_TASKS THEN failed
        ELSE IF i < MAX_TASKS
        THEN [res |-> "Ok", slot |-> i,
              tasks |-> [ts EXCEPT ![i] = task_new(priority, entry)],
              task_count |-> count]
        ELSE failed

add_task(ts, count, priority, entry) ==
    LET i == FirstEmpty(ts)
        failed == [res |-> "TaskLimitReached", slot |-> None,
                   tasks |-> ts, task_count |-> count]
    IN  IF count >= MAX_TASKS THEN failed
        ELSE IF i < MAX_TASKS
        THEN [res |-> "Ok", slot |-> i,
              tasks |-> [ts EXCEPT ![i] = task_new(priority, entry)],
              task_count |-> count + 1]
        ELSE failed

\* Scheduler::remove_task
remove_task_keep_count(ts, count, task_id) ==
    IF task_id >= MAX_TASKS \/ ts[task_id] = NoTask
    THEN [res |-> "TaskNotFound", tasks |-> ts, task_count |-> count]
    ELSE [res |-> "Ok", tasks |-> [ts EXCEPT ![task_id] = NoTask],
          task_count |-> count]

remove_task_no_lookup(ts, count, task_id) ==
    IF task_id >= MAX_TASKS
    THEN [res |-> "TaskNotFound", tasks |-> ts, task_count |-> count]
    ELSE [res |-> "Ok", tasks |-> [ts EXCEPT ![task_id] = NoTask],
          task_count |-> count - 1]

remove_task(ts, count, task_id) ==
    IF task_id >= MAX_TASKS \/ ts[task_id] = NoTask
    THEN [res |-> "TaskNotFound", tasks |-> ts, task_count |-> count]
    ELSE [res |-> "Ok", tasks |-> [ts EXCEPT ![task_id] = NoTask],
          task_count |-> count - 1]

\* the loop of schedule_next_task from slot i on
RECURSIVE ScheduleScan(_, _, _, _)
ScheduleScan(ts, i, highest_priority, selected_task) ==
    IF i >= MAX_TASKS THEN selected_task
    ELSE IF ts[i] # NoTask /\ ts[i].state = "Ready"
              /\ ts[i].priority > highest_priority
         THEN ScheduleScan(ts, i + 1, ts[i].priority, i)
         ELSE ScheduleScan(ts, i + 1, highest_priority, selected_task)

\* Scheduler::schedule_next_task
schedule_next_task_no_idle(ts, idle) == ScheduleScan(ts, 0, PrioIdle, None)

schedule_next_task(ts, idle) == ScheduleScan(ts, 0, PrioIdle, idle)

\* Scheduler::switch_task: the unwrap() of update_task_statistics halts the
\* program when the current slot is empty, the unwrap() of the last line
\* when the target slot is empty (current_task is already assigned then)
switch_task(ts, cur, next_task) ==
    IF cur # None /\ ts[cur] = NoTask
    THEN [tasks |-> ts, current_task |-> cur, panicked |-> TRUE]
    ELSE IF ts[next_task] = NoTask
    THEN [tasks |-> ts, current_task |-> next_task, panicked |-> TRUE]
    ELSE [tasks |-> [ts EXCEPT ![next_task].state = "Running"],
          current_task |-> next_task, panicked |-> FALSE]

\* one iteration of the loop of Scheduler::run
run_iteration(ts, cur, idle) ==
    LET next == schedule_next_task(ts, idle)
    IN  IF next # None THEN switch_task(ts, cur, next)
        ELSE [tasks |-> ts, current_task |-> cur, panicked |-> FALSE]

\* Scheduler::wake_event_tasks: every Blocked task becomes Ready
wake_event_tasks(ts, event_type) ==
    [i \in Slots |->
        IF ts[i] # NoTask /\ ts[i].state = "Blocked"
        THEN [ts[i] EXCEPT !.state = "Ready"] ELSE ts[i]]

\* Scheduler::create_semaphore: the first semaphore whose count is 0
create_semaphore(sems, initial) ==
    IF \E i \in SemIdx : sems[i] = 0
    THEN LET i == CHOOSE k \in SemIdx :
                    sems[k] = 0 /\ \A j \in SemIdx : j < k => sems[j] # 0
         IN  [res |-> "Ok", id |-> i, semaphores |-> [sems EXCEPT ![i] = initial]]
    ELSE [res |-> "NoSemaphoresAvailable", id |-> None, semaphores |-> sems]

(* ------------------------------- actions ------------------------------ *)

\* ---- the machine context ----
\* Task.stack is [u8; 512]; init_stack and the context hold 32 registers;
\* bit 7 of SREG is the global interrupt enable; stack pointers are u16.
STACK_SIZE == 512
NUM_REGISTERS == 32
SREG_I == 128
U8_MAX == 255
U16_MOD == 65536
Registers == 0 .. (NUM_REGISTERS - 1)
Bytes == 0 .. U8_MAX

\* An address is a region of memory and an offset into it: the stack array
\* of the task in a slot, the stack of the main-line code, or the region
\* that starts at address zero.
Ptr(region, off) == [region |-> region, off |-> off]
NullPtr == Ptr(<<"null">>, 0)
MainSp == Ptr(<<"main">>, 0)
TaskStack(slot) == <<"task", slot>>
PtrAdd(p, n) == [p EXCEPT !.off = (@ + n) % U16_MOD]
PtrSub(p, n) == [p EXCEPT !.off = (@ + U16_MOD - n) % U16_MOD]

\* The processor after reset: interrupts disabled, the main-line code not
\* yet in Scheduler::run, no task stack under the stack pointer.
McuReset == [sp |-> MainSp, sreg |-> 0, regs |-> [r \in Registers |-> 0],
             stack |-> <<>>, pc |-> "main", next |-> None, entry |-> None]
InterruptsEnabled == mcu.sreg >= SREG_I

\* Bootloader::new: Idle; no page of the flash has been programmed
BootloaderNew == [state |-> "Idle", pages |-> 0]

\* Logger::new
LoggerNew == [current_sector |-> 0, write_pointer |-> 0, buffer_index |-> 0]

\* Protocol::new: rx holds the first rx_index bytes of rx_buffer; no handler
\* is set, no byte is on the line and no packet has been sent or handed to
\* the handler
ProtocolNew ==
    [rx |-> <<>>, rx_index |-> 0, packet_handler |-> FALSE,
     line |-> <<>>, packet |-> <<>>, handled |-> <<>>]

\* Scheduler::new, and the statics of both files; the other objects as
\* their constructors make them
SchedulerNew ==
    /\ tasks = TasksNew
    /\ current_task = None
    /\ task_count = 0
    /\ idle_task_index = None
    /\ event_queue = EventQueueNew
    /\ semaphores = SemaphoresNew
    /\ SCHEDULER_RUNNING = FALSE
    /\ SYSTEM_TICKS = 0
    /\ wait = NoWait
    /\ panicked = FALSE
    /\ ret = Ret("new", "Ok", None)
    /\ hist = NoHist
    /\ NEXT_TASK_ID = 0
    /\ ids = [i \in Slots |-> None]
    /\ contexts = [i \in Slots |-> NullPtr]
    /\ statistics = [i \in Slots |-> 0]
    /\ mcu = McuReset
    /\ control = [deadline_ms |-> 0, last_wake_time |-> 0]
    /\ bootloader = BootloaderNew
    /\ logger = LoggerNew
    /\ protocol = ProtocolNew

\* Scheduler::init
init_unguarded ==
    /\ ~panicked
    /\ LET r == add_task(tasks, task_count, PrioIdle, "idle_task")
       IN  /\ tasks' = r.tasks
           /\ task_count' = r.task_count
           /\ idle_task_index' = r.slot
           /\ SCHEDULER_RUNNING' = TRUE
           /\ ret' = Ret("init", r.res, None)
    /\ UNCHANGED <<current_task, event_queue, semaphores, SYSTEM_TICKS, wait,
                   panicked>>

SchedulerInit ==
    /\ ~panicked
    /\ IF SCHEDULER_RUNNING
       THEN /\ ret' = Ret("init", "AlreadyRunning", None)
            /\ UNCHANGED <<tasks, task_count, idle_task_index, SCHEDULER_RUNNING>>
       ELSE LET r == add_task(tasks, task_count, PrioIdle, "idle_task")
            IN  IF r.res = "Ok"
                THEN /\ tasks' = r.tasks
                     /\ task_count' = r.task_count
                     /\ idle_task_index' = r.slot
                     /\ SCHEDULER_RUNNING' = TRUE
                     /\ ret' = Ret("init", "Ok", None)
                ELSE /\ ret' = Ret("init", "TaskLimitReached", None)
                     /\ UNCHANGED <<tasks, task_count, idle_task_index,
                                    SCHEDULER_RUNNING>>
    /\ UNCHANGED <<current_task, event_queue, semaphores, SYSTEM_TICKS, wait,
                   panicked>>

\* Scheduler::add_task(function, priority, period_ms)
AddTask(priority) ==
    /\ ~panicked
    /\ LET r == add_task(tasks, task_count, priority, "task")
       IN  /\ tasks' = r.tasks
           /\ task_count' = r.task_count
           /\ ret' = Ret("add_task", r.res, r.slot)
    /\ UNCHANGED <<current_task, idle_task_index, event_queue, semaphores,
                   SCHEDULER_RUNNING, SYSTEM_TICKS, wait, panicked>>

\* Scheduler::remove_task(task_id)
RemoveTask(task_id) ==
    /\ ~panicked
    /\ LET r == remove_task(tasks, task_count, task_id)
       IN  /\ tasks' = r.tasks
           /\ task_count' = r.task_count
           /\ ret' = Ret("remove_task", r.res, None)
    /\ UNCHANGED <<current_task, idle_task_index, event_queue, semaphores,
                   SCHEDULER_RUNNING, SYSTEM_TICKS, wait, panicked>>

\* one dispatch iteration of Scheduler::run
Run ==
    /\ ~panicked
    /\ LET r == run_iteration(tasks, current_task, idle_task_index)
       IN  /\ tasks' = r.tasks
           /\ current_task' = r.current_task
           /\ panicked' = r.panicked
           /\ ret' = Ret("run", IF r.panicked THEN "Panic" ELSE "Ok", None)
    /\ UNCHANGED <<task_count, idle_task_index, event_queue, semaphores,
                   SCHEDULER_RUNNING, SYSTEM_TICKS, wait>>

\* Scheduler::post_event(event_type, data)
PostEvent(event_type, data) ==
    /\ ~panicked
    /\ LET event == [event_type |-> event_type, data |-> data,
                     timestamp |-> SYSTEM_TICKS]
           p == push(event_queue, event)
       IN  /\ event_queue' = p[2]
           /\ IF ~p[1]
              THEN /\ ret' = Ret("post_event", "EventQueueFull", None)
                   /\ UNCHANGED tasks
              ELSE /\ tasks' = wake_event_tasks(tasks, event_type)
                   /\ ret' = Ret("post_event", "Ok", None)
    /\ UNCHANGED <<current_task, task_count, idle_task_index, semaphores,
                   SCHEDULER_RUNNING, SYSTEM_TICKS, wait, panicked>>

\* ---- u32 ----
\* A u32 is kept as its 32-bit pattern read as a two's-complement integer:
\* the values below 2^31 are themselves, the values from 2^31 on are
\* negative, and u32::MAX is -1.  The operators below never leave that
\* range on the way.
I32_MAX == 2147483647
I32_MIN == (-I32_MAX) - 1
U32_MAX == -1

\* a >= b on u32
u32_ge(a, b) == IF (a < 0) = (b < 0) THEN a >= b ELSE a < 0

\* whether a + b exceeds u32::MAX
u32_overflows(a, b) ==
    IF a >= 0 /\ b >= 0 THEN FALSE
    ELSE IF a < 0 /\ b < 0 THEN TRUE
    ELSE a + b >= 0

\* a + b modulo 2^32
u32_wrapping_add(a, b) ==
    IF a >= 0 /\ b >= 0
    THEN IF a > I32_MAX - b THEN ((a + I32_MIN) + b) + I32_MIN ELSE a + b
    ELSE IF a < 0 /\ b < 0
    THEN IF a >= I32_MIN - b THEN a + b ELSE ((a - I32_MIN) + b) - I32_MIN
    ELSE a + b

\* the test that ends wait_for_event with Timeout
deadline_passed_strict(now, deadline) == now > deadline

deadline_passed(now, deadline) == u32_ge(now, deadline)

\* the skipped blocking of the current task
block_current_skipped(ts, cur) == [tasks |-> ts, panicked |-> FALSE]

\* the blocking of the current task in wait_for_event and semaphore_acquire
block_current(ts, cur) ==
    IF cur = None THEN [tasks |-> ts, panicked |-> FALSE]
    ELSE IF ts[cur] = NoTask THEN [tasks |-> ts, panicked |-> TRUE]
    ELSE [tasks |-> [ts EXCEPT ![cur].state = "Blocked"], panicked |-> FALSE]

\* one pass through the loop of Scheduler::wait_for_event
WaitPass(event_type, deadline) ==
    LET p == pop(event_queue)
        b == block_current(tasks, current_task)
        next == schedule_next_task(b.tasks, idle_task_index)
        s == IF next # None THEN switch_task(b.tasks, current_task, next)
             ELSE [tasks |-> b.tasks, current_task |-> current_task,
                   panicked |-> FALSE]
    IN  /\ event_queue' = p[2]
        /\ IF p[1] # NoEvent /\ p[1].event_type = event_type
           THEN /\ ret' = Ret("wait_for_event", "Ok", p[1])
                /\ wait' = NoWait
                /\ UNCHANGED <<tasks, current_task, panicked>>
           ELSE IF deadline_passed(SYSTEM_TICKS, deadline)
           THEN /\ ret' = Ret("wait_for_event", "Timeout", None)
                /\ wait' = NoWait
                /\ UNCHANGED <<tasks, current_task, panicked>>
           ELSE IF b.panicked
           THEN /\ ret' = Ret("wait_for_event", "Panic", None)
                /\ wait' = NoWait
                /\ panicked' = TRUE
                /\ UNCHANGED <<tasks, current_task>>
           ELSE /\ ret' = Ret("wait_for_event",
                              IF s.panicked THEN "Panic" ELSE "Blocked", None)
                /\ wait' = IF s.panicked THEN NoWait
                           ELSE [event_type |-> event_type,
                                 deadline |-> deadline, task |-> current_task]
                /\ tasks' = s.tasks
                /\ current_task' = s.current_task
                /\ panicked' = s.panicked
        /\ UNCHANGED <<task_count, idle_task_index, semaphores,
                       SCHEDULER_RUNNING, SYSTEM_TICKS>>

\* Scheduler::wait_for_event(event_type, timeout_ms): the call and its
\* first pass through the loop.  The deadline is a plain u32 addition:
\* when it overflows, a build with overflow checks halts the program and a
\* build without them goes on with the wrapped sum.
WaitForEvent(event_type, timeout_ms) ==
    /\ ~panicked
    /\ wait = NoWait
    /\ \E checked \in IF u32_overflows(SYSTEM_TICKS, timeout_ms)
                       THEN {TRUE, FALSE} ELSE {FALSE} :
          IF checked
          THEN /\ panicked' = TRUE
               /\ ret' = Ret("wait_for_event", "Panic", None)
               /\ UNCHANGED <<tasks, current_task, task_count,
                              idle_task_index, event_queue, semaphores,
                              SCHEDULER_RUNNING, SYSTEM_TICKS, wait>>
          ELSE WaitPass(event_type,
                        u32_wrapping_add(SYSTEM_TICKS, timeout_ms))

\* a further pass of the wait_for_event call that has not returned: the
\* caller goes round the loop again once switch_task has made it the
\* current task again (or when no switch took it away)
WaitLoop ==
    /\ ~panicked
    /\ wait # NoWait
    /\ current_task = wait.task
    /\ WaitPass(wait.event_type, wait.deadline)

\* Scheduler::create_semaphore(initial)
CreateSemaphore(initial) ==
    /\ ~panicked
    /\ LET r == create_semaphore(semaphores, initial)
       IN  /\ semaphores' = r.semaphores
           /\ ret' = Ret("create_semaphore", r.res, r.id)
    /\ UNCHANGED <<tasks, current_task, task_count, idle_task_index,
                   event_queue, SCHEDULER_RUNNING, SYSTEM_TICKS, wait, panicked>>

\* Scheduler::semaphore_acquire(sem_id)
SemaphoreAcquire(sem_id) ==
    /\ ~panicked
    /\ IF sem_id >= NUM_SEMAPHORES
       THEN /\ ret' = Ret("semaphore_acquire", "InvalidSemaphore", None)
            /\ UNCHANGED <<semaphores, tasks, panicked>>
       ELSE LET a == acquire(semaphores[sem_id])
                b == block_current(tasks, current_task)
            IN  IF a[1]
                THEN /\ semaphores' = [semaphores EXCEPT ![sem_id] = a[2]]
                     /\ ret' = Ret("semaphore_acquire", "Ok", None)
                     /\ UNCHANGED <<tasks, panicked>>
                ELSE /\ semaphores' = [semaphores EXCEPT ![sem_id] = a[2]]
                     /\ tasks' = b.tasks
                     /\ panicked' = b.panicked
                     /\ ret' = Ret("semaphore_acquire",
                                   IF b.panicked THEN "Panic"
                                   ELSE "SemaphoreLocked", None)
    /\ UNCHANGED <<current_task, task_count, idle_task_index, event_queue,
                   SCHEDULER_RUNNING, SYSTEM_TICKS, wait>>

\* Scheduler::semaphore_release(sem_id)
SemaphoreRelease(sem_id) ==
    /\ ~panicked
    /\ IF sem_id >= NUM_SEMAPHORES
       THEN /\ ret' = Ret("semaphore_release", "InvalidSemaphore", None)
            /\ UNCHANGED semaphores
       ELSE /\ semaphores' =
                  [semaphores EXCEPT ![sem_id] = release(semaphores[sem_id])]
            /\ ret' = Ret("semaphore_release", "Ok", None)
    /\ UNCHANGED <<tasks, current_task, task_count, idle_task_index,
                   event_queue, SCHEDULER_RUNNING, SYSTEM_TICKS, wait, panicked>>

\* a method of Task called on the task in slot task_id, which it turns
\* into task
TaskCall(task_id, task) ==
    /\ ~panicked
    /\ tasks[task_id] # NoTask
    /\ tasks' = [tasks EXCEPT ![task_id] = task]
    /\ ret' = Ret("task", "Ok", None)
    /\ UNCHANGED <<current_task, task_count, idle_task_index, event_queue,
                   semaphores, SCHEDULER_RUNNING, SYSTEM_TICKS, wait, panicked>>

TaskSuspend(task_id) == TaskCall(task_id, suspend(tasks[task_id]))
TaskResume(task_id) == TaskCall(task_id, resume(tasks[task_id]))
TaskBlock(task_id) == TaskCall(task_id, block(tasks[task_id]))
TaskUnblock(task_id) == TaskCall(task_id, unblock(tasks[task_id]))
TaskWaitForEvent(task_id, event_type) ==
    TaskCall(task_id, task_wait_for_event(tasks[task_id], event_type))

\* the handler of the periodic timer interrupt that init enables
\* (scheduler.rs:185-190): it advances the tick counter by one.  No handler
\* is defined under src/; this is the tick handler of the written
\* specification, section 4.2.  MaxTicks keeps the counter far from the
\* width of an AtomicU32.
Tick ==
    /\ ~panicked
    /\ SYSTEM_TICKS' = SYSTEM_TICKS + 1
    /\ UNCHANGED <<tasks, current_task, task_count, idle_task_index,
                   event_queue, semaphores, SCHEDULER_RUNNING, wait, panicked,
                   ret>>

(* --------------------------- specifications -------------------------- *)

Init == SchedulerNew

\* Spec: dispatching and synchronisation.  The application adds Low and
\* High tasks, the dispatch loop runs, tasks block on semaphore 0, and
\* posted events wake them.
SpecPriorities == {PrioLow, PrioHigh}

Next ==
    \/ SchedulerInit /\ UNCHANGED <<hist, detail>>
    \/ \E p \in SpecPriorities :
          task_count < MaxLive /\ AddTask(p) /\ UNCHANGED <<hist, detail>>
    \/ Run /\ UNCHANGED <<hist, detail>>
    \/ event_queue.tail < MaxPosts /\ PostEvent("Timer", 0) /\ UNCHANGED <<hist, detail>>
    \/ SemaphoreAcquire(0) /\ UNCHANGED <<hist, detail>>
    \/ semaphores[0] < MaxCount /\ SemaphoreRelease(0) /\ UNCHANGED <<hist, detail>>

Spec == Init /\ [][Next]_vars

\* SpecLife: the task table over its life.  Tasks are added and removed
\* (the Idle task and the current task included) while the loop dispatches.
NextLife ==
    \/ SchedulerInit /\ UNCHANGED <<hist, detail>>
    \/ \E p \in SpecPriorities :
          task_count < MaxLive /\ AddTask(p) /\ UNCHANGED <<hist, detail>>
    \/ \E i \in 0 .. (MaxLive - 1) : RemoveTask(i) /\ UNCHANGED <<hist, detail>>
    \/ Run /\ UNCHANGED <<hist, detail>>
    \/ SemaphoreAcquire(0) /\ UNCHANGED <<hist, detail>>

SpecLife == Init /\ [][NextLife]_vars

\* SpecSelect: task selection over every priority level.  As in
\* examples/scheduler_test.rs the application calls init before it adds tasks.
NextSelect ==
    \/ SchedulerInit /\ UNCHANGED <<hist, detail>>
    \/ \E p \in TaskPriority :
          /\ SCHEDULER_RUNNING /\ task_count < MaxLive
          /\ AddTask(p) /\ UNCHANGED <<hist, detail>>
    \/ Run /\ UNCHANGED <<hist, detail>>
    \/ SemaphoreAcquire(0) /\ UNCHANGED <<hist, detail>>

SpecSelect == Init /\ [][NextSelect]_vars

\* SpecTable: the task table filled to MAX_TASKS.  Tasks of one priority
\* are added until the table is full and removed from the first, a middle
\* and the last slot; MAX_TASKS is a handle out of range.
TableRemovals == {0, 7, MAX_TASKS - 1, MAX_TASKS}

NextTable ==
    \/ SchedulerInit /\ UNCHANGED <<hist, detail>>
    \/ AddTask(PrioNormal) /\ UNCHANGED <<hist, detail>>
    \/ \E i \in TableRemovals : RemoveTask(i) /\ UNCHANGED <<hist, detail>>

SpecTable == Init /\ [][NextTable]_vars

\* SpecSem: one semaphore from creation on.  The caller creates a semaphore
\* with any initial count, acquires it again and again, releases it once
\* it has been refused, and tallies in hist the acquires that returned Ok.
NextSem ==
    \/ \E n \in 0 .. (U8_MOD - 1) :
          /\ hist = NoHist
          /\ CreateSemaphore(n)
          /\ hist' = [NoHist EXCEPT !.handle = ret'.val, !.initial = n]
          /\ UNCHANGED detail
    \/ /\ hist # NoHist
       /\ SemaphoreAcquire(hist.handle)
       /\ hist' = [hist EXCEPT
                     !.acquired = IF ret'.res = "Ok" THEN @ + 1 ELSE @]
       /\ UNCHANGED detail
    \/ /\ hist # NoHist
       /\ ret.res = "SemaphoreLocked"
       /\ hist.released < MaxReleases
       /\ SemaphoreRelease(hist.handle)
       /\ hist' = [hist EXCEPT !.released = @ + 1]
       /\ UNCHANGED detail

SpecSem == Init /\ [][NextSem]_vars

\* SpecQueue: the event queue filled to its capacity and drained.  The
\* producer posts Timer events that carry the tail index they are stored
\* at, the consumer takes them with wait_for_event(Timer, 0), and the Idle
\* task is dispatched and blocks on semaphore 0.
NextQueue ==
    \/ SchedulerInit /\ UNCHANGED <<hist, detail>>
    \/ Run /\ UNCHANGED <<hist, detail>>
    \/ SemaphoreAcquire(0) /\ UNCHANGED <<hist, detail>>
    \/ PostEvent("Timer", event_queue.tail) /\ UNCHANGED <<hist, detail>>
    \/ WaitForEvent("Timer", 0) /\ UNCHANGED <<hist, detail>>

SpecQueue == Init /\ [][NextQueue]_vars

\* SpecWait: waiting for events.  Low tasks are dispatched, Timer and Gpio
\* events are posted, and a task waits for either type with a timeout.
EventTypes == {"Timer", "Gpio"}

NextWait ==
    \/ SchedulerInit /\ UNCHANGED <<hist, detail>>
    \/ task_count < MaxLive /\ AddTask(PrioLow) /\ UNCHANGED <<hist, detail>>
    \/ Run /\ UNCHANGED <<hist, detail>>
    \/ \E t \in EventTypes :
          event_queue.tail < MaxPosts /\ PostEvent(t, 0) /\ UNCHANGED <<hist, detail>>
    \/ \E t \in EventTypes : \E ms \in 0 .. MaxTimeout :
          WaitForEvent(t, ms) /\ UNCHANGED <<hist, detail>>
    \/ WaitLoop /\ UNCHANGED <<hist, detail>>

SpecWait == Init /\ [][NextWait]_vars

\* SpecFifo: posting and delivery.  Events of both types are posted, each
\* carrying its number in posting order, and callers wait for either type;
\* hist logs the events post_event accepted and those wait_for_event
\* returned, with the type that was asked for.
LogPosted(event_type, data) ==
    IF ret'.res = "Ok"
    THEN [hist EXCEPT !.posted =
             Append(@, [event_type |-> event_type, data |-> data,
                        timestamp |-> SYSTEM_TICKS])]
    ELSE hist

LogDelivered(event_type) ==
    IF ret'.res = "Ok"
    THEN [hist EXCEPT !.delivered =
             Append(@, [requested |-> event_type, event |-> ret'.val])]
    ELSE hist

NextFifo ==
    \/ SchedulerInit /\ UNCHANGED <<hist, detail>>
    \/ task_count < 2 /\ AddTask(PrioLow) /\ UNCHANGED <<hist, detail>>
    \/ Run /\ UNCHANGED <<hist, detail>>
    \/ \E t \in EventTypes :
          /\ Len(hist.posted) < MaxFifo
          /\ PostEvent(t, Len(hist.posted))
          /\ hist' = LogPosted(t, Len(hist.posted))
          /\ UNCHANGED detail
    \/ \E t \in EventTypes : \E ms \in 0 .. MaxTimeout :
          WaitForEvent(t, ms) /\ hist' = LogDelivered(t) /\ UNCHANGED detail
    \/ WaitLoop /\ hist' = LogDelivered(wait.event_type) /\ UNCHANGED detail

SpecFifo == Init /\ [][NextFifo]_vars

\* SpecTimeout: waiting with a timeout while time passes.  The timer
\* interrupt keeps firing, the dispatch loop keeps running and a caller
\* inside wait_for_event goes round its loop whenever it is the current
\* task.  The Running current task waits for Timer events, which nobody
\* posts; Gpio events are posted.  Every deadline lies within the ticks
\* that will fire.
TimerTick == SYSTEM_TICKS < MaxTicks /\ Tick /\ UNCHANGED <<hist, detail>>

NextTimeout ==
    \/ SchedulerInit /\ UNCHANGED <<hist, detail>>
    \/ task_count < MaxLive /\ AddTask(PrioLow) /\ UNCHANGED <<hist, detail>>
    \/ Run /\ UNCHANGED <<hist, detail>>
    \/ TimerTick
    \/ event_queue.tail < MaxPosts /\ PostEvent("Gpio", 0) /\ UNCHANGED <<hist, detail>>
    \/ \E ms \in 1 .. MaxTimeout :
          /\ SYSTEM_TICKS + ms <= MaxTicks
          /\ current_task # None
          /\ tasks[current_task].state = "Running"
          /\ WaitForEvent("Timer", ms) /\ UNCHANGED <<hist, detail>>
    \/ WaitLoop /\ UNCHANGED <<hist, detail>>

SpecTimeout ==
    /\ Init /\ [][NextTimeout]_vars
    /\ WF_vars(TimerTick)
    /\ WF_vars(Run /\ UNCHANGED <<hist, detail>>)
    /\ WF_vars(WaitLoop /\ UNCHANGED <<hist, detail>>)

\* SpecWake: posting to a waiting task.  An application task that is the
\* Running current task calls wait_for_event with a positive timeout while
\* the queue is empty, so that it is Blocked by its first pass and
\* every event it meets was posted during its wait; events of both types
\* are posted, and tasks block on semaphore 0.  As in
\* examples/scheduler_test.rs init is called before tasks are added.
NextWake ==
    \/ SchedulerInit /\ UNCHANGED <<hist, detail>>
    \/ /\ SCHEDULER_RUNNING /\ task_count < MaxLive
       /\ AddTask(PrioLow) /\ UNCHANGED <<hist, detail>>
    \/ Run /\ UNCHANGED <<hist, detail>>
    \/ \E t \in EventTypes :
          event_queue.tail < MaxWake /\ PostEvent(t, 0) /\ UNCHANGED <<hist, detail>>
    \/ \E t \in EventTypes : \E ms \in 1 .. MaxTimeout :
          /\ event_queue.head = event_queue.tail
          /\ current_task # None
          /\ current_task # idle_task_index
          /\ tasks[current_task].state = "Running"
          /\ WaitForEvent(t, ms) /\ UNCHANGED <<hist, detail>>
    \/ WaitLoop /\ UNCHANGED <<hist, detail>>
    \/ SemaphoreAcquire(0) /\ UNCHANGED <<hist, detail>>

SpecWake == Init /\ [][NextWake]_vars

\* SpecPool: the semaphore pool.  Semaphores are created with initial
\* counts from 0 on, and the semaphores handed out are acquired and
\* released; hist keeps the handles that create_semaphore has returned.
NextPool ==
    \/ \E n \in 0 .. MaxCount :
          /\ CreateSemaphore(n)
          /\ hist' = IF ret'.res = "Ok"
                     THEN [hist EXCEPT !.handles = @ \cup {ret'.val}]
                     ELSE hist
          /\ UNCHANGED detail
    \/ \E s \in hist.handles : SemaphoreAcquire(s) /\ UNCHANGED <<hist, detail>>
    \/ \E s \in hist.handles :
          semaphores[s] < MaxCount /\ SemaphoreRelease(s) /\ UNCHANGED <<hist, detail>>

SpecPool == Init /\ [][NextPool]_vars

\* SpecSuspend: the methods of Task called on the application's tasks (not
\* on the Idle task) while the loop dispatches, events are posted and
\* semaphore 0 is released.  init is called before tasks are added.
\* hist.suspended holds the tasks that suspend has made Suspended and on
\* which resume has not been called since.
AppSlots == {i \in 0 .. (MaxLive - 1) : tasks[i] # NoTask /\ i # idle_task_index}

NextSuspend ==
    \/ SchedulerInit /\ UNCHANGED <<hist, detail>>
    \/ /\ SCHEDULER_RUNNING /\ task_count < MaxLive
       /\ AddTask(PrioLow) /\ UNCHANGED <<hist, detail>>
    \/ Run /\ UNCHANGED <<hist, detail>>
    \/ event_queue.tail < MaxPosts /\ PostEvent("Timer", 0) /\ UNCHANGED <<hist, detail>>
    \/ semaphores[0] < MaxCount /\ SemaphoreRelease(0) /\ UNCHANGED <<hist, detail>>
    \/ \E i \in AppSlots :
          /\ TaskSuspend(i)
          /\ hist' = IF tasks'[i].state = "Suspended"
                     THEN [hist EXCEPT !.suspended = @ \cup {i}] ELSE hist
          /\ UNCHANGED detail
    \/ \E i \in AppSlots :
          /\ TaskResume(i) /\ hist' = [hist EXCEPT !.suspended = @ \ {i}]
          /\ UNCHANGED detail
    \/ \E i \in AppSlots : TaskBlock(i) /\ UNCHANGED <<hist, detail>>
    \/ \E i \in AppSlots : TaskUnblock(i) /\ UNCHANGED <<hist, detail>>
    \/ \E i \in AppSlots : TaskWaitForEvent(i, "Timer") /\ UNCHANGED <<hist, detail>>

SpecSuspend == Init /\ [][NextSuspend]_vars

(* ------------------------------ properties ---------------------------- *)

ReadySlots == {i \in Slots : tasks[i] # NoTask /\ tasks[i].state = "Ready"}
RunningSlots == {i \in Slots : tasks[i] # NoTask /\ tasks[i].state = "Running"}

\* the task created by init is still in the slot init put it in
IdlePresent ==
    /\ idle_task_index # None
    /\ tasks[idle_task_index] # NoTask
    /\ tasks[idle_task_index].entry = "idle_task"

\* C1: when the Ready tasks have pairwise distinct priorities,
\* schedule_next_task returns the slot of the Ready task of greatest
\* priority (never a task that is not Ready in its place).
C1_SelectsHighestReady ==
    (/\ ReadySlots # {}
     /\ \A i, j \in ReadySlots : i # j => tasks[i].priority # tasks[j].priority)
    => LET sel == schedule_next_task(tasks, idle_task_index)
       IN  /\ sel \in ReadySlots
           /\ \A j \in ReadySlots : tasks[j].priority <= tasks[sel].priority

\* C2: at most one task is Running, and a Running task is the one recorded
\* in current_task.
C2_OneRunningIsCurrent ==
    /\ Cardinality(RunningSlots) <= 1
    /\ \A i \in RunningSlots : current_task = i

\* C3: after a successful init, while the Idle task is in the table and no
\* task is Ready, schedule_next_task returns the slot of the Idle task,
\* never None.
C3_IdleWhenNoneReady ==
    (SCHEDULER_RUNNING /\ IdlePresent /\ ReadySlots = {})
    => /\ schedule_next_task(tasks, idle_task_index) # None
       /\ schedule_next_task(tasks, idle_task_index) = idle_task_index

\* C3 witness: the Idle task and another task are in the table, none of them
\* Ready, and the Idle task is what the scheduler selects.
C3_Witness ==
    /\ SCHEDULER_RUNNING /\ IdlePresent /\ ReadySlots = {}
    /\ Cardinality(Occupied(tasks)) >= 2
    /\ \E i \in Slots : tasks[i] # NoTask /\ tasks[i].state = "Blocked"
    /\ schedule_next_task(tasks, idle_task_index) = idle_task_index

\* task a (High) and task b (Low) are the application's tasks: every other
\* occupied slot is the Idle task
HighLowScenario(a, b) ==
    /\ a # b
    /\ tasks[a] # NoTask /\ tasks[a].priority = PrioHigh
    /\ tasks[b] # NoTask /\ tasks[b].priority = PrioLow
    /\ \A i \in Occupied(tasks) \ {a, b} : IdlePresent /\ i = idle_task_index

C10_LowNeverBeforeHigh ==
    [][\A a, b \in Slots :
         (/\ HighLowScenario(a, b)
          /\ tasks[a].state \in {"Ready", "Running"}
          /\ tasks[b].state \in {"Ready", "Running"}
          /\ Run)
         => current_task' = a]_vars

\* C4: add_task succeeds while a slot is empty (16 times from an empty
\* table, once more after each successful remove_task) and fails with
\* TaskLimitReached, leaving the table and task_count as they were, while
\* all 16 slots are occupied.
C4_TableLimit ==
    [][AddTask(PrioNormal) =>
         IF Cardinality(Occupied(tasks)) = MAX_TASKS
         THEN /\ ret'.res = "TaskLimitReached"
              /\ tasks' = tasks
              /\ task_count' = task_count
         ELSE /\ ret'.res = "Ok"
              /\ Cardinality(Occupied(tasks')) = Cardinality(Occupied(tasks)) + 1
              /\ task_count' = task_count + 1]_vars

\* C4 witness: the table is full again after the slot freed by a
\* remove_task has been refilled by one add_task.
C4_Witness ==
    /\ Cardinality(Occupied(tasks)) = MAX_TASKS
    /\ task_count = MAX_TASKS
    /\ ret.res = "Ok" /\ ret.val = 7

\* C5: of the acquires of a semaphore created with count N exactly the
\* first N return Ok; the next is refused with SemaphoreLocked and leaves
\* the count at 0; each release that follows lets exactly one more acquire
\* succeed.
C5_SemaphoreCounts ==
    hist # NoHist =>
        /\ hist.acquired <= hist.initial + hist.released
        /\ ret.res = "SemaphoreLocked" =>
              /\ hist.acquired = hist.initial + hist.released
              /\ semaphores[hist.handle] = 0

\* C5 witness: a semaphore created with count 255 has been acquired 255
\* times, refused, released once, acquired once more and refused again.
C5_Witness ==
    /\ hist.initial = U8_MOD - 1
    /\ hist.released = 1
    /\ hist.acquired = U8_MOD
    /\ ret.res = "SemaphoreLocked"

C7_RefusedPostChangesNothing ==
    [][\A t \in EventTypes : \A d \in EventIdx :
         (PostEvent(t, d) /\ ret'.res = "EventQueueFull") =>
            /\ event_queue' = event_queue
            /\ tasks' = tasks
            /\ Drain(event_queue') = Drain(event_queue)
            /\ \A k \in 1 .. Len(Drain(event_queue')) :
                  Drain(event_queue')[k].data
                     = (event_queue.head + k - 1) % EVENT_SLOTS]_vars

\* C7 witness: a post was refused while the queue had wrapped round the
\* ring and a task was Blocked.
C7_Witness ==
    /\ ret.res = "EventQueueFull"
    /\ event_queue.head > 0
    /\ \E i \in Slots : tasks[i] # NoTask /\ tasks[i].state = "Blocked"

NoneQueued(event_type) ==
    \A i \in EventIdx : event_queue.events[i].event_type # event_type

\* C8: wait_for_event(T, 0) with no event of type T queued returns Timeout
\* in the same call: no task's state changes (the caller is not Blocked),
\* nothing is dispatched and current_task stays as it was.
C8_ZeroTimeoutNeverBlocks ==
    [][\A t \in EventTypes :
         (WaitForEvent(t, 0) /\ NoneQueued(t)) =>
            /\ ret'.res = "Timeout"
            /\ wait' = NoWait
            /\ tasks' = tasks
            /\ current_task' = current_task]_vars

\* C8 witness: the call returned Timeout to a Running task, after events
\* had been posted and with another task Ready to be dispatched.
C8_Witness ==
    /\ ret.res = "Timeout"
    /\ current_task # None
    /\ tasks[current_task].state = "Running"
    /\ \E i \in Slots : tasks[i] # NoTask /\ tasks[i].state = "Ready"
    /\ event_queue.tail = MaxPosts

OfType(s, event_type) == SelectSeq(s, LAMBDA e : e.event_type = event_type)

\* s is t with some of its elements left out
RECURSIVE IsSubseq(_, _)
IsSubseq(s, t) ==
    IF s = <<>> THEN TRUE
    ELSE IF t = <<>> THEN FALSE
    ELSE IF Head(s) = Head(t) THEN IsSubseq(Tail(s), Tail(t))
    ELSE IsSubseq(s, Tail(t))

DeliveredEvents ==
    [k \in 1 .. Len(hist.delivered) |-> hist.delivered[k].event]

\* C11: the events of each type are returned by wait_for_event in the order
\* they were posted, no event is returned twice, and a returned event has
\* the type that was asked for and the type, data and timestamp it was
\* posted with.
C11_PostingOrder ==
    /\ \A t \in EventTypes :
          IsSubseq(OfType(DeliveredEvents, t), OfType(hist.posted, t))
    /\ \A j, k \in 1 .. Len(hist.delivered) :
          j # k => DeliveredEvents[j] # DeliveredEvents[k]
    /\ \A k \in 1 .. Len(hist.delivered) :
          hist.delivered[k].event.event_type = hist.delivered[k].requested

\* C11 witness: after three events were posted, two waits for one type have
\* returned events, the second of them the event posted last, while a task
\* was the current task.
C11_Witness ==
    /\ Len(hist.posted) >= 3
    /\ Len(hist.delivered) >= 2
    /\ hist.delivered[1].requested = hist.delivered[2].requested
    /\ hist.delivered[2].event.data = 2
    /\ current_task # None

\* C12: a pass of wait_for_event(T, timeout) takes out of the queue at most
\* the first queued event of type T: every queued event of another type is
\* still in its place afterwards.
C12_OthersStayQueued ==
    [][\A t \in EventTypes :
         (\/ \E ms \in 0 .. MaxTimeout : WaitForEvent(t, ms)
          \/ WaitLoop /\ wait.event_type = t)
         => \A i \in EventIdx :
               (/\ event_queue.events[i] # NoEvent
                /\ event_queue.events[i].event_type # t)
               => event_queue'.events[i] = event_queue.events[i]]_vars

\* C13: a wait_for_event(T, timeout_ms) with timeout_ms > 0, during which
\* no event of type T is posted, eventually returns Timeout.
C13_WaitTimesOut ==
    (wait # NoWait) ~> (wait = NoWait /\ ret.res = "Timeout")

\* an event of the type is queued
Queued(event_type) ==
    \E i \in EventIdx : event_queue.events[i].event_type = event_type

\* C14: when post_event(T, d) succeeds while a task is Blocked inside
\* wait_for_event(T, timeout) and the deadline has not passed, the task
\* becomes Ready; and when the task is dispatched again with the event
\* still owed to it, its wait_for_event returns an event of type T.
C14_PostedEventDelivered ==
    [][/\ \A d \in EventIdx :
            (/\ wait # NoWait
             /\ tasks[wait.task].state = "Blocked"
             /\ SYSTEM_TICKS < wait.deadline
             /\ PostEvent(wait.event_type, d)
             /\ ret'.res = "Ok")
            => tasks'[wait.task].state = "Ready"
       /\ (/\ wait # NoWait
           /\ Queued(wait.event_type)
           /\ SYSTEM_TICKS < wait.deadline
           /\ WaitLoop)
          => (ret'.res = "Ok" /\ ret'.val.event_type = wait.event_type)]_vars

\* C15: after semaphore_release(h) has returned Ok no task is left Blocked
\* by a failed semaphore_acquire(h).  (Under Spec a task is Blocked only
\* through a failed semaphore_acquire(0).)
C15_ReleaseWakesBlocked ==
    [][(SemaphoreRelease(0) /\ ret'.res = "Ok")
         => \A i \in Occupied(tasks') : tasks'[i].state # "Blocked"]_vars

\* C16: a successful create_semaphore returns a handle that no earlier
\* create_semaphore has returned, the counts of the semaphores handed out
\* earlier are as before, and create_semaphore fails with
\* NoSemaphoresAvailable exactly when 8 handles have been handed out.
C16_DistinctHandles ==
    [][\A n \in 0 .. (U8_MOD - 1) : CreateSemaphore(n) =>
         /\ ret'.res = "Ok" =>
               /\ ret'.val \notin hist.handles
               /\ \A s \in hist.handles : semaphores'[s] = semaphores[s]
         /\ ret'.res = "NoSemaphoresAvailable"
               <=> Cardinality(hist.handles) = NUM_SEMAPHORES]_vars

\* the Ready tasks of the greatest priority among the Ready tasks
TopReady ==
    {i \in ReadySlots :
        \A j \in ReadySlots : tasks[j].priority <= tasks[i].priority}

\* C17: when two or more Ready tasks share the greatest priority among the
\* Ready tasks, whatever that priority is, schedule_next_task returns the
\* one in the lowest slot.
C17_LowestSlotWinsTie ==
    Cardinality(TopReady) >= 2
    => LET sel == schedule_next_task(tasks, idle_task_index)
       IN  sel \in TopReady /\ \A j \in TopReady : sel <= j

\* C18: a task that Task::suspend has made Suspended is not Ready or
\* Running, is not returned by schedule_next_task and is not made the
\* current task by a dispatch iteration, until Task::resume is called on it.
C18_SuspendedUntilResumed ==
    [][\A i \in hist.suspended :
         /\ tasks[i].state \notin {"Ready", "Running"}
         /\ schedule_next_task(tasks, idle_task_index) # i
         /\ Run => current_task' # i]_vars

\* C19: an init called after a successful init returns AlreadyRunning and
\* changes nothing: the task table, task_count and idle_task_index (and
\* every other field) are as before, and no second Idle task is added.
C19_SecondInitRefused ==
    [][(SCHEDULER_RUNNING /\ SchedulerInit) =>
         /\ ret'.res = "AlreadyRunning"
         /\ tasks' = tasks
         /\ task_count' = task_count
         /\ idle_task_index' = idle_task_index
         /\ SCHEDULER_RUNNING'
         /\ UNCHANGED <<current_task, event_queue, semaphores, SYSTEM_TICKS>>
         /\ Cardinality({i \in Slots : tasks'[i].entry = "idle_task"}) <= 1]_vars

\* C19 witness: init has been refused while the Idle task and an
\* application task were in the table and a task had been dispatched.
C19_Witness ==
    /\ ret.res = "AlreadyRunning"
    /\ IdlePresent
    /\ Cardinality(Occupied(tasks)) >= 2
    /\ current_task # None

\* C20: remove_task(h) returns TaskNotFound and changes nothing when
\* h >= 16 or slot h is empty; otherwise it returns Ok, empties slot h,
\* decrements task_count by one and leaves every other slot as it was.
C20_RemoveTask ==
    [][\A h \in TableRemovals : RemoveTask(h) =>
         /\ IF h >= MAX_TASKS \/ tasks[h] = NoTask
            THEN /\ ret'.res = "TaskNotFound"
                 /\ tasks' = tasks
                 /\ task_count' = task_count
            ELSE /\ ret'.res = "Ok"
                 /\ tasks'[h] = NoTask
                 /\ task_count' = task_count - 1
                 /\ \A j \in Slots \ {h} : tasks'[j] = tasks[j]
         /\ UNCHANGED <<current_task, idle_task_index, event_queue,
                        semaphores, SCHEDULER_RUNNING>>]_vars

\* C20 witness: with the other 15 slots occupied, a remove_task was
\* refused while slot 7, which an earlier remove_task emptied, is empty.
C20_Witness ==
    /\ ret.res = "TaskNotFound"
    /\ tasks[7] = NoTask
    /\ Occupied(tasks) = Slots \ {7}
    /\ task_count = MAX_TASKS - 1

\* C21: no sequence of calls reaches a panic: no unwrap() has met an empty
\* slot, and current_task and the slot that schedule_next_task returns
\* always name an occupied slot.
C21_NoPanic ==
    /\ ~panicked
    /\ current_task # None => tasks[current_task] # NoTask
    /\ LET sel == schedule_next_task(tasks, idle_task_index)
       IN  sel # None => tasks[sel] # NoTask

\* C22: after a successful init idle_task_index names an occupied slot
\* that holds the priority-Idle task created by init, and that task is
\* never Blocked or Suspended.
C22_IdleAlwaysThere ==
    SCHEDULER_RUNNING =>
        /\ IdlePresent
        /\ tasks[idle_task_index].priority = PrioIdle
        /\ tasks[idle_task_index].state \notin {"Blocked", "Suspended"}

\* the task in slot i goes from state from to state to when it is in state
\* from and is left as it is otherwise; no other slot changes
OnlyFrom(i, from, to) ==
    /\ tasks'[i] = IF tasks[i].state = from
                   THEN [tasks[i] EXCEPT !.state = to] ELSE tasks[i]
    /\ \A j \in Slots \ {i} : tasks'[j] = tasks[j]

\* C24: Task::suspend changes the state only when it is Running (to
\* Suspended), Task::resume only when it is Suspended (to Ready),
\* Task::block only when it is Running (to Blocked), Task::unblock only
\* when it is Blocked (to Ready); in any other state the task is left
\* unchanged, and its other fields are never changed.
C24_StateMethods ==
    [][\A i \in Slots :
         /\ TaskSuspend(i) => OnlyFrom(i, "Running", "Suspended")
         /\ TaskResume(i) => OnlyFrom(i, "Suspended", "Ready")
         /\ TaskBlock(i) => OnlyFrom(i, "Running", "Blocked")
         /\ TaskUnblock(i) => OnlyFrom(i, "Blocked", "Ready")]_vars

\* C24 witness: one application task is Suspended by a suspend made while
\* it was Running, another is Blocked, and the Idle task is Ready.
C24_Witness ==
    /\ \E i \in hist.suspended : tasks[i].state = "Suspended"
    /\ \E j \in AppSlots : tasks[j].state = "Blocked"
    /\ IdlePresent /\ tasks[idle_task_index].state = "Ready"

\* C26: when a dispatch iteration calls switch_task(next) while task p is
\* current_task and next differs from p, p is Ready afterwards if it was
\* Running, and is left Blocked or Suspended if it was so.
C26_OutgoingBecomesReady ==
    [][\A p \in Slots :
         LET next == schedule_next_task(tasks, idle_task_index)
         IN  (/\ current_task = p /\ tasks[p] # NoTask
              /\ next # None /\ next # p
              /\ Run)
             => tasks'[p].state = IF tasks[p].state = "Running" THEN "Ready"
                                  ELSE tasks[p].state]_vars

\* C30: a successful add_task returns the lowest empty slot, stores there
\* a Ready task of the requested priority, increments task_count by one
\* and leaves every other slot, current_task and idle_task_index as they
\* were.
C30_AddTaskEffect ==
    [][\A p \in SpecPriorities : (AddTask(p) /\ ret'.res = "Ok") =>
         LET i == ret'.val
         IN  /\ i \in Slots
             /\ tasks[i] = NoTask
             /\ \A j \in Slots : j < i => tasks[j] # NoTask
             /\ tasks'[i] = [priority |-> p, state |-> "Ready",
                             entry |-> "task"]
             /\ task_count' = task_count + 1
             /\ \A j \in Slots \ {i} : tasks'[j] = tasks[j]
             /\ UNCHANGED <<current_task, idle_task_index>>]_vars

\* C30 witness: add_task has just filled slot 1, which a remove_task had
\* emptied, while slots 0 and 2 were occupied and a task was Running.
C30_Witness ==
    /\ ret.res = "Ok" /\ ret.val = 1
    /\ tasks[0] # NoTask /\ tasks[2] # NoTask
    /\ tasks[1] # NoTask /\ tasks[1].state = "Ready"
    /\ current_task # None /\ tasks[current_task] # NoTask
    /\ tasks[current_task].state = "Running"

\* ---- task ids ----
\* AtomicU8::fetch_add(1): the counter wraps at 256
fetch_add(counter) == (counter + 1) % U8_MOD

\* What a call of add_task does to the ids: Task::new runs once the
\* task_count check has passed and takes the counter's value as the id;
\* the new task lands in the slot add_task fills.
TaskNewIds(count, slot) ==
    /\ NEXT_TASK_ID' = IF count >= MAX_TASKS THEN NEXT_TASK_ID
                       ELSE fetch_add(NEXT_TASK_ID)
    /\ ids' = IF slot # None THEN [ids EXCEPT ![slot] = NEXT_TASK_ID] ELSE ids

\* Scheduler::init, with the id of the idle task it creates
InitIds ==
    /\ SchedulerInit
    /\ IF SCHEDULER_RUNNING
       THEN UNCHANGED <<NEXT_TASK_ID, ids>>
       ELSE TaskNewIds(task_count,
                       add_task(tasks, task_count, PrioIdle, "idle_task").slot)
    /\ UNCHANGED <<contexts, statistics, mcu, control, periph>>

\* Scheduler::add_task, with the id of the task it creates
AddTaskIds(priority) ==
    /\ AddTask(priority)
    /\ TaskNewIds(task_count, add_task(tasks, task_count, priority, "task").slot)
    /\ UNCHANGED <<contexts, statistics, mcu, control, periph>>

\* Scheduler::remove_task, which drops the task and its id with it
RemoveTaskIds(task_id) ==
    /\ RemoveTask(task_id)
    /\ ids' = IF ret'.res = "Ok" THEN [ids EXCEPT ![task_id] = None] ELSE ids
    /\ UNCHANGED <<NEXT_TASK_ID, contexts, statistics, mcu, control, periph>>

\* The idle task stays; one application task at a time is created and
\* removed, as often as the callers like.
NextIds ==
    \/ InitIds /\ UNCHANGED hist
    \/ /\ SCHEDULER_RUNNING
       /\ task_count < IdsLive
       /\ AddTaskIds(PrioNormal)
       /\ UNCHANGED hist
    \/ \E i \in 1 .. (IdsLive - 1) : RemoveTaskIds(i) /\ UNCHANGED hist

SpecIds == Init /\ [][NextIds]_vars

\* C25: no two tasks present in the table at the same time share an id,
\* however many tasks have been created and removed before.
C25_UniqueIds ==
    \A i \in Slots : \A j \in Slots :
        (i # j /\ tasks[i] # NoTask /\ tasks[j] # NoTask) => ids[i] # ids[j]

\* ---- the context switch, step by step ----
\* save_context pushes the registers and SREG and stores the hardware stack
\* pointer; load_context loads the stored stack pointer and pops SREG and
\* the registers.  Each push moves the stack pointer down by one byte, each
\* pop up by one.
CONTEXT_BYTES == NUM_REGISTERS + 1
save_context(sp) == PtrSub(sp, CONTEXT_BYTES)
load_context(stack_ptr) == PtrAdd(stack_ptr, CONTEXT_BYTES)

\* Scheduler::update_task_statistics: total_runs is a u32 that MaxRuns
\* keeps far from its width
update_task_statistics(stats, task_index) ==
    [stats EXCEPT ![task_index] = @ + 1]

\* Scheduler::run up to its loop: interrupt::enable()
RunEnter ==
    /\ ~panicked
    /\ mcu.pc = "main"
    /\ mcu' = [mcu EXCEPT !.pc = "loop",
                          !.sreg = IF @ >= SREG_I THEN @ ELSE @ + SREG_I]
    /\ UNCHANGED <<tasks, current_task, task_count, idle_task_index,
                   event_queue, semaphores, SCHEDULER_RUNNING, SYSTEM_TICKS,
                   wait, panicked, ret, NEXT_TASK_ID, ids, contexts,
                   statistics, control, periph>>

\* The head of the loop of Scheduler::run: schedule_next_task; with
\* Some(next) the code enters switch_task(next), with None it sleeps.
RunSchedule ==
    /\ ~panicked
    /\ mcu.pc = "loop"
    /\ LET next == schedule_next_task(tasks, idle_task_index)
       IN  mcu' = IF next = None THEN mcu
                  ELSE [mcu EXCEPT !.pc = "save", !.next = next]
    /\ UNCHANGED <<tasks, current_task, task_count, idle_task_index,
                   event_queue, semaphores, SCHEDULER_RUNNING, SYSTEM_TICKS,
                   wait, panicked, ret, NEXT_TASK_ID, ids, contexts,
                   statistics, control, periph>>

\* switch_task, first part: with Some(current), save_context(current) and
\* update_task_statistics(current), whose unwrap() halts the program after
\* the increment when the current slot is empty
SwitchSave ==
    /\ ~panicked
    /\ mcu.pc = "save"
    /\ IF current_task = None
       THEN /\ mcu' = [mcu EXCEPT !.pc = "load"]
            /\ UNCHANGED <<contexts, statistics, panicked>>
       ELSE LET sp == save_context(mcu.sp)
            IN  /\ contexts' = [contexts EXCEPT ![current_task] = sp]
                /\ statistics' = update_task_statistics(statistics, current_task)
                /\ panicked' = (tasks[current_task] = NoTask)
                /\ mcu' = [mcu EXCEPT !.sp = sp, !.pc = "load"]
    /\ UNCHANGED <<tasks, current_task, task_count, idle_task_index,
                   event_queue, semaphores, SCHEDULER_RUNNING, SYSTEM_TICKS,
                   wait, ret, NEXT_TASK_ID, ids, control, periph>>

\* switch_task, second part: load_context(next_task).  The byte popped
\* into SREG is the one that lies at the loaded stack pointer.
SwitchLoad ==
    /\ ~panicked
    /\ mcu.pc = "load"
    /\ \E status \in {0, SREG_I} :
          mcu' = [mcu EXCEPT !.sp = load_context(contexts[mcu.next]),
                             !.sreg = status, !.pc = "commit"]
    /\ UNCHANGED <<tasks, current_task, task_count, idle_task_index,
                   event_queue, semaphores, SCHEDULER_RUNNING, SYSTEM_TICKS,
                   wait, panicked, ret, NEXT_TASK_ID, ids, contexts,
                   statistics, control, periph>>

\* switch_task, last part: current_task = Some(next_task) and the state of
\* the task in that slot becomes Running
SwitchCommit ==
    /\ ~panicked
    /\ mcu.pc = "commit"
    /\ LET r == switch_task(tasks, None, mcu.next)
       IN  /\ tasks' = r.tasks
           /\ current_task' = r.current_task
           /\ panicked' = r.panicked
           /\ ret' = Ret("run", IF r.panicked THEN "Panic" ELSE "Ok", None)
    /\ mcu' = [mcu EXCEPT !.pc = "loop", !.next = None]
    /\ UNCHANGED <<task_count, idle_task_index, event_queue, semaphores,
                   SCHEDULER_RUNNING, SYSTEM_TICKS, wait, NEXT_TASK_ID, ids,
                   contexts, statistics, control, periph>>

\* The timer interrupt is taken wherever the main-line code stands, as long
\* as the interrupt-enable bit of SREG is set.
TickInterrupt ==
    /\ InterruptsEnabled
    /\ SYSTEM_TICKS < MaxTicks
    /\ Tick
    /\ UNCHANGED <<hist, detail>>

InSwitch == mcu.pc \in {"save", "load", "commit"}

\* The calls of the scheduler's interface come from the main-line code
\* before run and from the running task between two dispatch iterations,
\* never from inside switch_task.
NextSwitch ==
    \/ ~InSwitch /\ SchedulerInit /\ UNCHANGED <<hist, detail>>
    \/ \E p \in SpecPriorities :
          /\ ~InSwitch
          /\ SCHEDULER_RUNNING
          /\ task_count < MaxLive
          /\ AddTask(p)
          /\ UNCHANGED <<hist, detail>>
    \/ \E i \in 1 .. (MaxLive - 1) :
          ~InSwitch /\ RemoveTask(i) /\ UNCHANGED <<hist, detail>>
    \/ SCHEDULER_RUNNING /\ RunEnter /\ UNCHANGED hist
    \/ /\ \A i \in Slots : statistics[i] < MaxRuns
       /\ RunSchedule
       /\ UNCHANGED hist
    \/ SwitchSave /\ UNCHANGED hist
    \/ SwitchLoad /\ UNCHANGED hist
    \/ SwitchCommit /\ UNCHANGED hist
    \/ TickInterrupt

SpecSwitch == Init /\ [][NextSwitch]_vars

\* C27: while switch_task runs for the task that is already current_task,
\* the saved stack pointer and the total_runs of that task stay as they were.
C27_NoSwitchToCurrent ==
    [][(InSwitch /\ current_task # None /\ mcu.next = current_task)
          => /\ contexts'[current_task] = contexts[current_task]
             /\ statistics'[current_task] = statistics[current_task]]_vars

\* C28: interrupts are disabled from before the outgoing context is saved
\* until current_task has been updated.
C28_SwitchWithInterruptsOff == InSwitch => ~InterruptsEnabled

\* C29: the stack pointer that load_context is about to load for a task
\* lies within the stack array of the task in that slot.
InOwnStack(p, slot) ==
    p.region = TaskStack(slot) /\ p.off \in 0 .. STACK_SIZE
C29_LoadsOwnStackPointer ==
    mcu.pc = "load" => InOwnStack(contexts[mcu.next], mcu.next)

\* ---- the bytes of a task stack ----
\* A stack is the sequence of its bytes in the order they were pushed: the
\* last element is the byte at the stack pointer, the next one to be popped.

\* Task::init_stack(entry): the low and the high byte of the entry address,
\* the status byte 0x80, then a zero for each of the 32 registers
init_stack(entry) ==
    <<entry % (U8_MAX + 1), (entry \div (U8_MAX + 1)) % (U8_MAX + 1), SREG_I>>
        \o [i \in 1 .. NUM_REGISTERS |-> 0]

\* The pushes of save_context: r0, r1 and on to the last register, SREG last
push_context(stack, regs, sreg) ==
    stack \o [i \in 1 .. NUM_REGISTERS |-> regs[i - 1]] \o <<sreg>>

\* The pops of load_context: the first byte goes to SREG, the following
\* ones to the registers in the reverse of the order save_context pushed
\* them, r0 last
pop_context(stack) ==
    LET n == Len(stack)
    IN  [sreg  |-> stack[n],
         regs  |-> [r \in Registers |-> stack[n - NUM_REGISTERS + r]],
         stack |-> SubSeq(stack, 1, n - CONTEXT_BYTES)]

\* The address a return takes from the stack: the high byte is popped
\* first, the low byte after it
ReturnAddress(stack) ==
    stack[Len(stack)] * (U8_MAX + 1) + stack[Len(stack) - 1]

\* The entry addresses of the tasks that are created
EntryBytes == {0, 1, 2, 127, 128, 254, 255}
EntryAddresses == {h * (U8_MAX + 1) + l : h \in EntryBytes, l \in EntryBytes}

\* Task::new(priority, name, entry): a fresh stack that holds the initial
\* context of the task
TaskNewStack(entry) ==
    /\ mcu.pc = "main"
    /\ mcu' = [mcu EXCEPT !.stack = init_stack(entry), !.entry = entry,
                          !.pc = "created"]
    /\ UNCHANGED <<tasks, current_task, task_count, idle_task_index,
                   event_queue, semaphores, SCHEDULER_RUNNING, SYSTEM_TICKS,
                   wait, panicked, ret, NEXT_TASK_ID, ids, contexts,
                   statistics, control, periph>>

\* load_context with the stack pointer at the top of the task's stack
LoadContextStack ==
    /\ mcu.pc \in {"created", "saved"}
    /\ LET c == pop_context(mcu.stack)
       IN  mcu' = [mcu EXCEPT !.sreg = c.sreg, !.regs = c.regs,
                              !.stack = c.stack, !.pc = "restored"]
    /\ UNCHANGED <<tasks, current_task, task_count, idle_task_index,
                   event_queue, semaphores, SCHEDULER_RUNNING, SYSTEM_TICKS,
                   wait, panicked, ret, NEXT_TASK_ID, ids, contexts,
                   statistics, control, periph>>

\* save_context of the task whose context was restored
SaveContextStack ==
    /\ mcu.pc = "restored"
    /\ mcu' = [mcu EXCEPT !.stack = push_context(@, mcu.regs, mcu.sreg),
                          !.pc = "saved"]
    /\ UNCHANGED <<tasks, current_task, task_count, idle_task_index,
                   event_queue, semaphores, SCHEDULER_RUNNING, SYSTEM_TICKS,
                   wait, panicked, ret, NEXT_TASK_ID, ids, contexts,
                   statistics, control, periph>>

NextStack ==
    \/ \E entry \in EntryAddresses : TaskNewStack(entry) /\ UNCHANGED hist
    \/ LoadContextStack /\ UNCHANGED hist
    \/ SaveContextStack /\ UNCHANGED hist

SpecStack == Init /\ [][NextStack]_vars

\* C23: once the initial context of a task has been restored, SREG holds
\* the status byte 0x80 of init_stack, every register holds zero and the
\* return address is the entry address of the task.
C23_InitialContextRestored ==
    mcu.pc = "restored"
        => /\ mcu.sreg = SREG_I
           /\ \A r \in Registers : mcu.regs[r] = 0
           /\ ReturnAddress(mcu.stack) = mcu.entry

\* C31: through init, add_task and remove_task, whether they succeed or
\* fail, task_count is the number of occupied slots of the task table and
\* lies between 0 and 16.
C31_TaskCountIsOccupied ==
    /\ task_count = Cardinality(Occupied(tasks))
    /\ 0 <= task_count /\ task_count <= MAX_TASKS

\* C31 witness: the table was full, the first and the last slot have been
\* emptied and a further remove_task has been refused.
C31_Witness ==
    /\ ret.res = "TaskNotFound"
    /\ Occupied(tasks) = Slots \ {0, MAX_TASKS - 1}
    /\ task_count = MAX_TASKS - 2

\* C32: a successful post_event(T, d) takes out of Blocked only the task
\* that is Blocked inside wait_for_event for type T; a task Blocked by a
\* refused semaphore_acquire or waiting for another type stays Blocked.
C32_WakesOnlyMatchingWaiters ==
    [][\A t \in EventTypes :
         (PostEvent(t, 0) /\ ret'.res = "Ok")
            => \A i \in Occupied(tasks) :
                  (tasks[i].state = "Blocked" /\ tasks'[i].state # "Blocked")
                     => (wait # NoWait /\ wait.task = i
                                      /\ wait.event_type = t)]_vars

\* SpecCount: one semaphore over the whole width of its counter.  The
\* semaphore is created with a count at either end of the 8-bit range and
\* is released and acquired in any order; hist tallies the calls as in
\* SpecSem.
SemInitials == {0, 1, U8_MOD - 2, U8_MOD - 1}

NextCount ==
    \/ \E n \in SemInitials :
          /\ hist = NoHist
          /\ CreateSemaphore(n)
          /\ hist' = [NoHist EXCEPT !.handle = ret'.val, !.initial = n]
          /\ UNCHANGED detail
    \/ /\ hist # NoHist
       /\ SemaphoreAcquire(hist.handle)
       /\ hist' = [hist EXCEPT
                     !.acquired = IF ret'.res = "Ok" THEN @ + 1 ELSE @]
       /\ UNCHANGED detail
    \/ /\ hist # NoHist
       /\ hist.released < MaxReleases
       /\ SemaphoreRelease(hist.handle)
       /\ hist' = [hist EXCEPT !.released = @ + 1]
       /\ UNCHANGED detail

SpecCount == Init /\ [][NextCount]_vars

\* C33: semaphore_release leaves the count of its semaphore exactly one
\* greater than it was, whatever the count was, and the count is never
\* negative.
C33_ReleaseAddsOne ==
    [][\A h \in SemIdx :
         (SemaphoreRelease(h) /\ ret'.res = "Ok")
            => /\ semaphores'[h] = semaphores[h] + 1
               /\ semaphores'[h] >= 0]_vars

\* SpecDeadline: wait_for_event over the whole width of the tick counter.
\* The Running current task waits with a timeout of 0, of 1 or close to
\* u32::MAX after some ticks have passed; Gpio events are posted and only
\* Timer events are waited for.
WideTimeouts == {0, 1, U32_MAX - 1, U32_MAX}

NextDeadline ==
    \/ SchedulerInit /\ UNCHANGED <<hist, detail>>
    \/ /\ SCHEDULER_RUNNING /\ task_count < MaxLive
       /\ AddTask(PrioLow) /\ UNCHANGED <<hist, detail>>
    \/ Run /\ UNCHANGED <<hist, detail>>
    \/ TimerTick
    \/ event_queue.tail < MaxPosts /\ PostEvent("Gpio", 0) /\ UNCHANGED <<hist, detail>>
    \/ \E ms \in WideTimeouts :
          /\ current_task # None
          /\ tasks[current_task] # NoTask
          /\ tasks[current_task].state = "Running"
          /\ WaitForEvent("Timer", ms) /\ UNCHANGED <<hist, detail>>
    \/ WaitLoop /\ UNCHANGED <<hist, detail>>

SpecDeadline == Init /\ [][NextDeadline]_vars

\* C34: a wait_for_event that meets no matching event does not halt on an
\* arithmetic overflow and returns Timeout from its first pass, when no
\* tick has elapsed since the call, only for a timeout of 0.
C34_NoEarlyTimeout ==
    [][\A ms \in WideTimeouts :
         WaitForEvent("Timer", ms)
            => /\ ret'.res # "Panic"
               /\ ret'.res = "Timeout" => ms = 0]_vars

\* ---- the deadline of a task ----
\* a > b on u32
u32_gt(a, b) == ~u32_ge(b, a)

\* Task::set_deadline(deadline_ms)
TaskSetDeadline(deadline_ms) ==
    /\ ~panicked
    /\ control' = [control EXCEPT !.deadline_ms = deadline_ms]
    /\ ret' = Ret("set_deadline", "Ok", None)
    /\ UNCHANGED <<tasks, current_task, task_count, idle_task_index,
                   event_queue, semaphores, SCHEDULER_RUNNING, SYSTEM_TICKS,
                   wait, panicked, NEXT_TASK_ID, ids, contexts, statistics,
                   mcu, periph>>

\* An assignment to the public field control.last_wake_time by the holder
\* of the task
TaskSetLastWake(time) ==
    /\ ~panicked
    /\ control' = [control EXCEPT !.last_wake_time = time]
    /\ ret' = Ret("last_wake_time", "Ok", None)
    /\ UNCHANGED <<tasks, current_task, task_count, idle_task_index,
                   event_queue, semaphores, SCHEDULER_RUNNING, SYSTEM_TICKS,
                   wait, panicked, NEXT_TASK_ID, ids, contexts, statistics,
                   mcu, periph>>

\* Task::is_deadline_missed(current_time), whose result is returned in
\* ret.res: && evaluates the sum only when
\* deadline_ms > 0; the sum is a plain u32 addition, which halts a build
\* with overflow checks and wraps in a build without them.
TaskIsDeadlineMissed(current_time) ==
    /\ ~panicked
    /\ \E checked \in IF /\ u32_gt(control.deadline_ms, 0)
                          /\ u32_overflows(control.last_wake_time,
                                           control.deadline_ms)
                       THEN {TRUE, FALSE} ELSE {FALSE} :
          /\ panicked' = checked
          /\ ret' = IF checked THEN Ret("is_deadline_missed", "Panic", None)
                    ELSE Ret("is_deadline_missed",
                             IF /\ u32_gt(control.deadline_ms, 0)
                                /\ u32_gt(current_time,
                                          u32_wrapping_add(
                                              control.last_wake_time,
                                              control.deadline_ms))
                             THEN "true" ELSE "false", None)
    /\ UNCHANGED <<tasks, current_task, task_count, idle_task_index,
                   event_queue, semaphores, SCHEDULER_RUNNING, SYSTEM_TICKS,
                   wait, NEXT_TASK_ID, ids, contexts, statistics, mcu,
                   control, periph>>

\* SpecMissed: the deadline check of one task over the width of its u32
\* fields and of the time passed to it
U32Samples == {0, 1, 2, I32_MAX, I32_MIN, U32_MAX - 1, U32_MAX}

NextMissed ==
    \/ \E ms \in U32Samples : TaskSetDeadline(ms) /\ UNCHANGED hist
    \/ \E time \in U32Samples : TaskSetLastWake(time) /\ UNCHANGED hist
    \/ \E now \in U32Samples : TaskIsDeadlineMissed(now) /\ UNCHANGED hist

SpecMissed == Init /\ [][NextMissed]_vars

\* C35: is_deadline_missed(now) returns false when deadline_ms is 0 and
\* otherwise true exactly when now exceeds last_wake_time + deadline_ms,
\* the sum taken without wraparound (a sum beyond the u32 range is exceeded
\* by no now), and it never halts; set_deadline changes only deadline_ms.
C35_DeadlineMissed ==
    [][/\ \A now \in U32Samples :
            TaskIsDeadlineMissed(now)
               => ret'.res =
                     IF /\ control.deadline_ms # 0
                        /\ ~u32_overflows(control.last_wake_time,
                                          control.deadline_ms)
                        /\ u32_gt(now,
                                  u32_wrapping_add(control.last_wake_time,
                                                   control.deadline_ms))
                     THEN "true" ELSE "false"
       /\ \A ms \in U32Samples :
            TaskSetDeadline(ms)
               => /\ control'.deadline_ms = ms
                  /\ control'.last_wake_time = control.last_wake_time
                  /\ tasks' = tasks]_vars

\* SpecHandles: semaphore calls with handles of every kind.  A few
\* semaphores are created; semaphore_acquire and semaphore_release are
\* called with handles that create_semaphore has returned, with handles
\* below 8 that it has not returned, and with 8, while the scheduler runs;
\* hist keeps the handles returned.
SemHandles == {0, 1, NUM_SEMAPHORES - 1, NUM_SEMAPHORES}

NextHandles ==
    \/ SchedulerInit /\ UNCHANGED <<hist, detail>>
    \/ Run /\ UNCHANGED <<hist, detail>>
    \/ \E n \in 1 .. MaxCount :
          /\ Cardinality(hist.handles) < MaxHandles
          /\ CreateSemaphore(n)
          /\ hist' = IF ret'.res = "Ok"
                     THEN [hist EXCEPT !.handles = @ \cup {ret'.val}]
                     ELSE hist
          /\ UNCHANGED detail
    \/ \E h \in SemHandles : SemaphoreAcquire(h) /\ UNCHANGED <<hist, detail>>
    \/ \E h \in SemHandles :
          /\ h \in SemIdx => semaphores[h] < MaxCount
          /\ SemaphoreRelease(h)
          /\ UNCHANGED <<hist, detail>>

SpecHandles == Init /\ [][NextHandles]_vars

\* C36: semaphore_acquire and semaphore_release called with a handle that
\* create_semaphore has not returned (8, or an index below 8 not handed
\* out) return InvalidSemaphore and change no count and no task.
C36_UnknownHandleRefused ==
    [][\A h \in SemHandles \ hist.handles :
         (SemaphoreAcquire(h) \/ SemaphoreRelease(h))
            => /\ ret'.res = "InvalidSemaphore"
               /\ semaphores' = semaphores
               /\ tasks' = tasks]_vars

\* the slots of the ring from head up to, not including, tail
RingSlots(q) ==
    {i \in EventIdx :
        (i + EVENT_SLOTS - q.head) % EVENT_SLOTS
            < (q.tail + EVENT_SLOTS - q.head) % EVENT_SLOTS}

\* C37: head and tail stay in 0..31, the number of unconsumed events is
\* (tail - head) mod 32 and at most 31, exactly the slots from head up to
\* tail hold an event, and a pop on the empty queue (made by
\* wait_for_event) returns None and leaves head and tail as they were.
C37_RingInvariant ==
    /\ [](/\ event_queue.head \in EventIdx
          /\ event_queue.tail \in EventIdx
          /\ Unconsumed(event_queue)
                = (event_queue.tail + EVENT_SLOTS - event_queue.head)
                     % EVENT_SLOTS
          /\ Unconsumed(event_queue) <= EVENT_SLOTS - 1
          /\ {i \in EventIdx : event_queue.events[i] # NoEvent}
                = RingSlots(event_queue))
    /\ [][(event_queue.head = event_queue.tail /\ WaitForEvent("Timer", 0))
            => /\ pop(event_queue)[1] = NoEvent
               /\ ret'.res = "Timeout"
               /\ event_queue' = event_queue]_vars

\* C37 witness: 31 events have gone through the ring, and a pop on the
\* queue, empty again with head and tail at the last slot, found nothing.
C37_Witness ==
    /\ ret.res = "Timeout"
    /\ event_queue.head = EVENT_SLOTS - 1
    /\ event_queue.tail = EVENT_SLOTS - 1
    /\ Unconsumed(event_queue) = 0

\* ---- the bootloader ----
\* MAGIC_WORD is 0xB007F11E as a u32 pattern; 0x7F starts an update.
BOOTLOADER_START == 122880
PAGE_SIZE == 256
MAGIC_WORD == -1341656802
START_BYTE == 127
NUM_PAGES == BOOTLOADER_START \div PAGE_SIZE

\* Bootloader::handle_idle with the byte read from the UART (None when
\* there is none)
handle_idle(b, byte) ==
    [res |-> "Ok",
     bootloader |-> IF byte = START_BYTE THEN [b EXCEPT !.state = "Receiving"]
                    ELSE b]

\* Bootloader::handle_receiving with the magic and size fields of the
\* header it has read
handle_receiving(b, magic, size) ==
    IF magic # MAGIC_WORD
    THEN [res |-> "Err", bootloader |-> [b EXCEPT !.state = "Idle"]]
    ELSE IF u32_gt(size, BOOTLOADER_START - 4096)
    THEN [res |-> "Err", bootloader |-> [b EXCEPT !.state = "Idle"]]
    ELSE [res |-> "Ok", bootloader |-> [b EXCEPT !.state = "Programming"]]

\* What the flash does to the calls made for one page: nothing wrong
\* ("none"), an Err from erase_page, write_page or read, or a page that
\* reads back different from what was written ("verify")
FlashFaults == {"none", "erase", "write", "read", "verify"}

\* Bootloader::handle_programming: the pages are programmed from address 0
\* on; page is the first page at which the flash does fault, NUM_PAGES
\* when it never does.  The ? after a flash call returns its Err at once.
handle_programming(b, page, fault) ==
    IF page >= NUM_PAGES \/ fault = "none"
    THEN [res |-> "Ok",
          bootloader |-> [b EXCEPT !.state = "Verifying", !.pages = NUM_PAGES]]
    ELSE IF fault = "verify"
    THEN [res |-> "Err",
          bootloader |-> [b EXCEPT !.state = "Idle", !.pages = page]]
    ELSE [res |-> "Err", bootloader |-> [b EXCEPT !.pages = page]]

\* Bootloader::handle_verifying: every page is read for the checksum; the
\* ? after flash.read returns its Err at once
handle_verifying(b, page, fault) ==
    IF page < NUM_PAGES /\ fault = "read"
    THEN [res |-> "Err", bootloader |-> b]
    ELSE [res |-> "Ok", bootloader |-> [b EXCEPT !.state = "Idle"]]

\* The bytes and header fields that arrive on the UART
UartBytes == {None, 0, START_BYTE}
HeaderMagics == {0, MAGIC_WORD}
HeaderSizes == {0, BOOTLOADER_START - 4096, BOOTLOADER_START - 4095, U32_MAX}

\* the first page at which the flash faults, and how: past the last page
\* when it does not
FlashRuns ==
    {<<NUM_PAGES, "none">>}
        \cup ((0 .. (NUM_PAGES - 1)) \X (FlashFaults \ {"none"}))

\* Bootloader::process: the handler of the current state, with what the
\* UART and the flash give it
process(b) ==
    IF b.state = "Idle"
    THEN {handle_idle(b, byte) : byte \in UartBytes}
    ELSE IF b.state = "Receiving"
    THEN {handle_receiving(b, h[1], h[2]) : h \in HeaderMagics \X HeaderSizes}
    ELSE IF b.state = "Programming"
    THEN {handle_programming(b, f[1], f[2]) : f \in FlashRuns}
    ELSE {handle_verifying(b, f[1], f[2]) : f \in FlashRuns}

BootloaderProcess ==
    /\ ~panicked
    /\ \E r \in process(bootloader) :
          /\ bootloader' = r.bootloader
          /\ ret' = Ret("process", r.res, None)
    /\ UNCHANGED <<sched, panicked, logger, protocol>>

\* Bootloader::enter_bootloader
EnterBootloader ==
    /\ ~panicked
    /\ bootloader' = [bootloader EXCEPT !.state = "Idle"]
    /\ ret' = Ret("enter_bootloader", "Ok", None)
    /\ UNCHANGED <<sched, panicked, logger, protocol>>

NextBoot ==
    \/ BootloaderProcess /\ UNCHANGED hist
    \/ EnterBootloader /\ UNCHANGED hist

SpecBoot == Init /\ [][NextBoot]_vars

\* C38: when process returns Err the bootloader is Idle afterwards, and
\* when it returns Ok the state is as before or has advanced one step
\* along Idle, Receiving, Programming, Verifying, Idle.
BootSteps ==
    {<<"Idle", "Receiving">>, <<"Receiving", "Programming">>,
     <<"Programming", "Verifying">>, <<"Verifying", "Idle">>}

C38_ErrReturnsToIdle ==
    [][BootloaderProcess
         => /\ ret'.res = "Err" => bootloader'.state = "Idle"
            /\ ret'.res = "Ok"
                  => \/ bootloader'.state = bootloader.state
                     \/ <<bootloader.state, bootloader'.state>>
                           \in BootSteps]_vars

\* ---- the logger ----
\* The buffer holds 32 entries of 22 bytes (a u32, the log type, 16 data
\* bytes and a length byte); a sector has 0x1000 bytes and the log has
\* 0x100 sectors; an entry carries at most 16 data bytes.
LOG_BUFFER_LEN == 32
LOG_ENTRY_SIZE == 22
SECTOR_SIZE == 4096
NUM_SECTORS == 256
MAX_LOG_DATA == 16

\* What the flash does to the calls of one flush: nothing wrong, an Err
\* from erase_sector, or an Err from write
LogFaults == {"none", "erase", "write"}

\* Logger::flush
flush(lg, fault) ==
    LET len == lg.buffer_index * LOG_ENTRY_SIZE
        full == lg.write_pointer + len > SECTOR_SIZE
        sector == IF full
                  THEN IF lg.current_sector + 1 >= NUM_SECTORS THEN 0
                       ELSE lg.current_sector + 1
                  ELSE lg.current_sector
        pointer == IF full THEN 0 ELSE lg.write_pointer
    IN  IF lg.buffer_index = 0 THEN [res |-> "Ok", logger |-> lg]
        ELSE IF full /\ fault = "erase"
        THEN [res |-> "Err", logger |-> [lg EXCEPT !.current_sector = sector]]
        ELSE IF fault = "write"
        THEN [res |-> "Err",
              logger |-> [lg EXCEPT !.current_sector = sector,
                                    !.write_pointer = pointer]]
        ELSE [res |-> "Ok",
              logger |-> [current_sector |-> sector,
                          write_pointer |-> pointer + len,
                          buffer_index |-> 0]]

\* Logger::log_entry with data of length len: the entry is stored at
\* buffer[buffer_index], an index past the buffer halts the program; the
\* buffer is flushed once buffer_index has reached its length
log_entry(lg, len, fault) ==
    IF len > MAX_LOG_DATA THEN [res |-> "Err", logger |-> lg]
    ELSE IF lg.buffer_index >= LOG_BUFFER_LEN
    THEN [res |-> "Panic", logger |-> lg]
    ELSE LET stored == [lg EXCEPT !.buffer_index = @ + 1]
         IN  IF stored.buffer_index >= LOG_BUFFER_LEN
             THEN flush(stored, fault)
             ELSE [res |-> "Ok", logger |-> stored]

\* Logger::log_system, log_sensor, log_error, log_debug with data of
\* length len
LogEntry(len) ==
    /\ ~panicked
    /\ \E fault \in LogFaults :
          LET r == log_entry(logger, len, fault)
          IN  /\ logger' = r.logger
              /\ panicked' = (r.res = "Panic")
              /\ ret' = Ret("log_entry", r.res, None)
    /\ UNCHANGED <<sched, bootloader, protocol>>

\* Logger::flush called by the owner of the logger
LoggerFlush ==
    /\ ~panicked
    /\ \E fault \in LogFaults :
          LET r == flush(logger, fault)
          IN  /\ logger' = r.logger
              /\ ret' = Ret("flush", r.res, None)
    /\ UNCHANGED <<sched, panicked, bootloader, protocol>>

\* SpecLog: entries of every admissible length and one too long are
\* logged and the buffer is flushed, with a flash that may fail, until the
\* log has gone through MaxSectors sectors.
LogLengths == {0, MAX_LOG_DATA, MAX_LOG_DATA + 1}

NextLog ==
    \/ \E len \in LogLengths :
          /\ logger.current_sector < MaxSectors
          /\ LogEntry(len)
          /\ UNCHANGED hist
    \/ logger.current_sector < MaxSectors /\ LoggerFlush /\ UNCHANGED hist

SpecLog == Init /\ [][NextLog]_vars

\* C39: whenever log_entry stores an entry, buffer_index is at most 31,
\* so that the 32-entry buffer is never indexed out of bounds, also after
\* a flash erase or write has failed.
C39_BufferIndexInBounds ==
    [][\A len \in LogLengths :
         (LogEntry(len) /\ len <= MAX_LOG_DATA)
            => (logger.buffer_index <= LOG_BUFFER_LEN - 1
                   /\ ret'.res # "Panic")]_vars

\* ---- the protocol framing ----
\* protocol.rx is rx_buffer[..rx_index], protocol.line the bytes the UART
\* holds for read_byte, protocol.packet the bytes of the last send_packet
\* and protocol.handled the slices the packet handler was called with since.
RX_BUFFER_LEN == 256
MAX_PAYLOAD == 250
HEADER_SIZE == 4
FOOTER_SIZE == 2
START_1 == 85
START_2 == 170
END_BYTE == 10
Commands == 1 .. 7

\* The u8 sum with wrapping_add of data[lo .. hi], by halves
RECURSIVE wrapping_sum_of(_, _, _)
wrapping_sum_of(data, lo, hi) ==
    IF lo > hi THEN 0
    ELSE IF lo = hi THEN data[lo] % (U8_MAX + 1)
    ELSE LET mid == (lo + hi) \div 2
         IN  (wrapping_sum_of(data, lo, mid)
                + wrapping_sum_of(data, mid + 1, hi)) % (U8_MAX + 1)

wrapping_sum(data) == wrapping_sum_of(data, 1, Len(data))

\* Protocol::calculate_checksum and Packet::calculate_checksum
calculate_checksum(data) == U8_MAX - wrapping_sum(data)

\* Packet::parse: "Ok" for a well-formed packet
parse(data) ==
    IF Len(data) < HEADER_SIZE + FOOTER_SIZE THEN "InvalidPacket"
    ELSE IF data[1] # START_1 \/ data[2] # START_2 THEN "InvalidPacket"
    ELSE IF Len(data) # HEADER_SIZE + data[4] + FOOTER_SIZE THEN "InvalidPacket"
    ELSE IF data[HEADER_SIZE + data[4] + 2] # END_BYTE THEN "InvalidPacket"
    ELSE IF data[HEADER_SIZE + data[4] + 1]
              # calculate_checksum(SubSeq(data, 1, HEADER_SIZE + data[4]))
    THEN "InvalidChecksum"
    ELSE IF data[3] \in Commands THEN "Ok"
    ELSE "InvalidCommand"

\* The bytes Protocol::send_packet writes to the UART
packet_bytes(command, data) ==
    LET head == <<START_1, START_2, command, Len(data) % (U8_MAX + 1)>> \o data
    IN  head \o <<calculate_checksum(head), END_BYTE>>

\* The loop of Protocol::process: bytes are read until the UART is empty,
\* the buffer is full or the handler returns Err. The iterations up to and
\* including the next end byte are taken together: n bytes are read, and
\* stored while rx_index is below the buffer length; the byte read with the
\* buffer full resets rx_index and ends the call.
RECURSIVE read_bytes(_)
read_bytes(p) ==
    IF p.line = <<>> THEN [res |-> "Ok", protocol |-> p]
    ELSE LET ends == {i \in 1 .. Len(p.line) : p.line[i] = END_BYTE}
             n == IF ends = {} THEN Len(p.line)
                  ELSE CHOOSE i \in ends : \A j \in ends : i <= j
             room == RX_BUFFER_LEN - p.rx_index
             rest(k) == SubSeq(p.line, k + 1, Len(p.line))
             stored == [p EXCEPT !.line = rest(n),
                                 !.rx = @ \o SubSeq(p.line, 1, n),
                                 !.rx_index = @ + n]
             called == [stored EXCEPT !.handled = Append(@, stored.rx)]
             reset(r) == [r EXCEPT !.rx = <<>>, !.rx_index = 0]
         IN  IF n > room
             THEN [res |-> "BufferOverflow",
                   protocol |-> reset([p EXCEPT !.line = rest(room + 1)])]
             ELSE IF ends = {} THEN [res |-> "Ok", protocol |-> stored]
             ELSE IF ~p.packet_handler THEN read_bytes(reset(stored))
             ELSE IF parse(stored.rx) # "Ok"
             THEN [res |-> parse(stored.rx), protocol |-> called]
             ELSE read_bytes(reset(called))

\* Protocol::set_packet_handler, with a handler that parses the slice with
\* Packet::parse
SetPacketHandler ==
    /\ ~panicked
    /\ protocol' = [protocol EXCEPT !.packet_handler = TRUE]
    /\ ret' = Ret("set_packet_handler", "Ok", None)
    /\ UNCHANGED <<sched, panicked, bootloader, logger>>

\* Protocol::send_packet, the UART looped back to the receiver
SendPacket(command, data) ==
    /\ ~panicked
    /\ protocol.line = <<>>
    /\ IF Len(data) > MAX_PAYLOAD
       THEN /\ ret' = Ret("send_packet", "BufferOverflow", None)
            /\ UNCHANGED protocol
       ELSE /\ protocol' = [protocol EXCEPT
                                  !.line = packet_bytes(command, data),
                                  !.packet = packet_bytes(command, data),
                                  !.handled = <<>>]
            /\ ret' = Ret("send_packet", "Ok", None)
    /\ UNCHANGED <<sched, panicked, bootloader, logger>>

\* Protocol::process
ProtocolProcess ==
    /\ ~panicked
    /\ LET r == read_bytes(protocol)
       IN  /\ protocol' = r.protocol
           /\ ret' = Ret("process", r.res, None)
    /\ UNCHANGED <<sched, panicked, bootloader, logger>>

\* SpecFrame: packets of every command are sent and processed; the
\* payloads are all sequences of at most MaxPayload bytes of PayloadBytes
\* and the zero payloads of 10, 250 and 251 bytes.
PayloadBytes == {0, END_BYTE, U8_MAX}

Payloads ==
    UNION {[1 .. n -> PayloadBytes] : n \in 0 .. MaxPayload}
       \cup {[i \in 1 .. n |-> 0] : n \in {END_BYTE, MAX_PAYLOAD, MAX_PAYLOAD + 1}}

NextFrame ==
    \/ SetPacketHandler /\ UNCHANGED hist
    \/ \E command \in Commands, data \in Payloads :
          SendPacket(command, data) /\ UNCHANGED hist
    \/ ProtocolProcess /\ UNCHANGED hist

SpecFrame == Init /\ [][NextFrame]_vars

\* C40: when the bytes emitted by send_packet are processed on an empty
\* receive buffer, the packet handler is invoked exactly once, with exactly
\* the emitted packet, and rx_index is 0 afterwards.
C40_FramingRoundTrip ==
    [][(/\ ProtocolProcess
        /\ protocol.packet_handler
        /\ protocol.rx_index = 0
        /\ protocol.line # <<>>
        /\ protocol.line = protocol.packet)
          => (/\ protocol'.handled = <<protocol.packet>>
              /\ protocol'.rx_index = 0)]_vars


====
